---------------------------- MODULE Spec2Model ----------------------------
(***************************************************************************)
(* A model of dnsserver.py: the DNS resolver MiResolver.resolve, run by    *)
(* one thread per query, and the administrative routes of the Flask        *)
(* dashboard, all working on the module's global state                     *)
(* (global_bloqueos, maintenance_mode, logs, estadisticas, config).        *)
(*                                                                         *)
(* Strings the code parses or matches are sequences of one-character       *)
(* strings, so that strip, upper, fnmatch and strptime are computed.       *)
(***************************************************************************)
EXTENDS Integers, Sequences, FiniteSets, TLC

(***************************************************************************)
(* Program constants.                                                      *)
(***************************************************************************)
LOG_LIMIT == 100

(***************************************************************************)
(* Bounds of the model.                                                    *)
(***************************************************************************)
\* resolve calls started in one run
MaxCalls == 2
\* rule dicts in one run, loaded and added
MaxRules == 3
\* administrative requests (add, remove, toggle, maintenance, reset) in one run
MaxAdmin == 2
\* advances of the wall clock in one run
MaxTicks == 1

\* resolver threads of the threaded DNS server
Threads == {1, 2}

-----------------------------------------------------------------------------
(***************************************************************************)
(* String helpers: str.rstrip(chars), str.strip(), str.upper(),            *)
(* str.endswith.                                                           *)
(***************************************************************************)
RECURSIVE RStrip(_, _)
RStrip(s, chars) ==
  IF s # <<>> /\ s[Len(s)] \in chars
    THEN RStrip(SubSeq(s, 1, Len(s) - 1), chars)
    ELSE s

RECURSIVE LStrip(_, _)
LStrip(s, chars) ==
  IF s # <<>> /\ Head(s) \in chars THEN LStrip(Tail(s), chars) ELSE s

Whitespace == {" "}

Strip(s) == LStrip(RStrip(s, Whitespace), Whitespace)

UpperChar(c) ==
  CASE c = "r" -> "R" [] c = "e" -> "E" [] c = "f" -> "F" [] c = "u" -> "U"
    [] c = "s" -> "S" [] c = "d" -> "D" [] c = "a" -> "A" [] c = "b" -> "B"
    [] c = "x" -> "X" [] OTHER -> c

Upper(s) == [i \in 1..Len(s) |-> UpperChar(s[i])]

EndsWith(s, c) == s # <<>> /\ s[Len(s)] = c

Digits == {"0", "1", "2", "3", "4", "5", "6", "7", "8", "9"}

DigitVal(c) ==
  CASE c = "0" -> 0 [] c = "1" -> 1 [] c = "2" -> 2 [] c = "3" -> 3
    [] c = "4" -> 4 [] c = "5" -> 5 [] c = "6" -> 6 [] c = "7" -> 7
    [] c = "8" -> 8 [] c = "9" -> 9

\* the value of a non-empty run of digits
RECURSIVE IntOf(_)
IntOf(s) ==
  IF Len(s) = 1 THEN DigitVal(s[1])
  ELSE 10 * IntOf(SubSeq(s, 1, Len(s) - 1)) + DigitVal(s[Len(s)])

IsDigits(s) == s # <<>> /\ \A i \in 1..Len(s) : s[i] \in Digits

(***************************************************************************)
(* matches_pattern: fnmatch.fnmatch(name.rstrip('.'), pattern.rstrip('.')) *)
(* with the glob syntax "*" (any run of characters), "?" (one character)   *)
(* and literals, matched against the whole name.  Names and patterns of    *)
(* the model hold no "[" and are lower case, where fnmatch's normcase      *)
(* changes nothing.                                                        *)
(***************************************************************************)
RECURSIVE FnMatch(_, _)
FnMatch(name, pat) ==
  IF pat = <<>> THEN name = <<>>
  ELSE IF Head(pat) = "*"
    THEN FnMatch(name, Tail(pat)) \/ (name # <<>> /\ FnMatch(Tail(name), pat))
  ELSE IF Head(pat) = "?"
    THEN name # <<>> /\ FnMatch(Tail(name), Tail(pat))
  ELSE name # <<>> /\ Head(name) = Head(pat) /\ FnMatch(Tail(name), Tail(pat))

matches_pattern(name, pattern) ==
  FnMatch(RStrip(name, {"."}), RStrip(pattern, {"."}))

(***************************************************************************)
(* datetime.strptime(s, '%H:%M').time(): one or two digits, a colon, one   *)
(* or two digits, the hour at most 23 and the minute at most 59, nothing   *)
(* before or after.  The result is the time of day in seconds; ParseFail   *)
(* stands for the ValueError (or, for a value that is no string, the       *)
(* TypeError) strptime raises.                                             *)
(***************************************************************************)
ParseFail == -1

ColonAt(s) == {i \in 1..Len(s) : s[i] = ":"}

StrpTimeHM(s) ==
  IF Cardinality(ColonAt(s)) # 1 THEN ParseFail
  ELSE LET c == CHOOSE i \in ColonAt(s) : TRUE
           h == SubSeq(s, 1, c - 1)
           m == SubSeq(s, c + 1, Len(s))
       IN IF /\ IsDigits(h) /\ Len(h) <= 2 /\ IntOf(h) <= 23
             /\ IsDigits(m) /\ Len(m) <= 2 /\ IntOf(m) <= 59
            THEN IntOf(h) * 3600 + IntOf(m) * 60
            ELSE ParseFail

SecondsPerDay == 24 * 60 * 60

\* datetime.datetime.now().time(), at the resolution of one second
TimeOfDay(clock) == clock % SecondsPerDay

\* dentro_de_franja without line 65: a window is never taken to wrap past
\* midnight
dentro_de_franja_NoWrap(start_str, end_str, clock) ==
  LET now_t == TimeOfDay(clock)
      start == StrpTimeHM(start_str)
      end   == StrpTimeHM(end_str)
  IN IF start = ParseFail \/ end = ParseFail THEN TRUE
     ELSE start <= now_t /\ now_t <= end

\* dentro_de_franja with False returned at line 62: a window that does not
\* parse is never active
dentro_de_franja_FailClosed(start_str, end_str, clock) ==
  LET now_t == TimeOfDay(clock)
      start == StrpTimeHM(start_str)
      end   == StrpTimeHM(end_str)
  IN IF start = ParseFail \/ end = ParseFail THEN FALSE
     ELSE IF start <= end THEN start <= now_t /\ now_t <= end
     ELSE now_t >= start \/ now_t <= end

(***************************************************************************)
(* dentro_de_franja(start_str, end_str), with the clock it reads.          *)
(***************************************************************************)
dentro_de_franja(start_str, end_str, clock) ==
  LET now_t == TimeOfDay(clock)
      start == StrpTimeHM(start_str)
      end   == StrpTimeHM(end_str)
  IN IF start = ParseFail \/ end = ParseFail THEN TRUE
     ELSE IF start <= end THEN start <= now_t /\ now_t <= end
     ELSE now_t >= start \/ now_t <= end

\* line 95: the rule is skipped iff both strings are non-empty and the
\* window is not active
TimeActive(start, end, clock) ==
  ~ (start # <<>> /\ end # <<>> /\ ~ dentro_de_franja(start, end, clock))

-----------------------------------------------------------------------------
(***************************************************************************)
(* Values of the model.                                                    *)
(***************************************************************************)
\* str(request.q.qname): dnslib prints a query name with its trailing dot
Domains == { <<"a", ".", "b", ".">>, <<"c", ".">> }

IpZero    == <<"0", ".", "0", ".", "0", ".", "0">>
IpRefused == <<"r", "e", "f", "u", "s", "e", "d">>
IpBad     == <<"b", "a", "d">>
IpReal    == <<"9", ".", "9", ".", "9", ".", "9">>
Refused   == <<"R", "E", "F", "U", "S", "E", "D">>

T0000 == <<"0", "0", ":", "0", "0">>
T2359 == <<"2", "3", ":", "5", "9">>
T2200 == <<"2", "2", ":", "0", "0">>
T0600 == <<"0", "6", ":", "0", "0">>

\* what the /add form posts: pattern, ip, start, end
Forms ==
  { [pattern |-> <<"*", ".", "b">>, ip |-> <<" ">> \o IpZero,
     start |-> T0000, end |-> T2359],
    [pattern |-> <<"a", ".", "b", ".">>, ip |-> IpRefused,
     start |-> <<>>, end |-> <<>>],
    [pattern |-> <<"a", ".", "b", ".">>, ip |-> IpBad,
     start |-> T2200, end |-> T0600] }

\* the pattern argument of /remove and /toggle
PatternArgs == { <<"*", ".", "b", ".">>, <<"a", ".", "b", ".">> }

\* socket.gethostbyname: an address, or an exception
UpstreamResults == { [ok |-> TRUE, ip |-> IpReal], [ok |-> FALSE, ip |-> <<>>] }

\* the clock advances by a second or by twelve hours
TickSteps == {1, 12 * 60 * 60}
StartClock == 12 * 60 * 60

\* strftime("%Y-%m-%d %H:%M:%S"): day, hour, minute, second
Strftime(clock) ==
  << clock \div SecondsPerDay,
     (clock % SecondsPerDay) \div 3600,
     (clock % 3600) \div 60,
     clock % 60 >>

(***************************************************************************)
(* dnslib: request.reply() is a NOERROR reply without answers; A(data)     *)
(* takes four dot-separated numbers 0..255 and raises ValueError on        *)
(* anything else.                                                          *)
(***************************************************************************)
EmptyReply == [rcode |-> "NOERROR", answers |-> <<>>]

RR(rtype, rdata) == [rtype |-> rtype, rdata |-> rdata, ttl |-> 60]

AddAnswer(reply, rr) == [reply EXCEPT !.answers = Append(@, rr)]

MaintenanceText == "PabloDNS: Estamos en mantenimiento"

RECURSIVE Split(_, _)
Split(s, c) ==
  IF \A i \in 1..Len(s) : s[i] # c THEN <<s>>
  ELSE LET k == CHOOSE i \in 1..Len(s) :
                  s[i] = c /\ \A j \in 1..(i - 1) : s[j] # c
       IN <<SubSeq(s, 1, k - 1)>> \o Split(SubSeq(s, k + 1, Len(s)), c)

IsIPv4(s) ==
  LET parts == Split(RStrip(s, {"."}), ".")
  IN /\ Len(parts) = 4
     /\ \A i \in 1..4 : IsDigits(parts[i]) /\ IntOf(parts[i]) <= 255

\* the action strings of resolve: the f-string's literal part and its fields
Action(kind, ip, pat) == [kind |-> kind, ip |-> ip, pat |-> pat]

\* estadisticas: a dict from pattern to count
EmptyStats == [p \in {} |-> 0]
Get(d, k) == IF k \in DOMAIN d THEN d[k] ELSE 0
Put(d, k, v) == [q \in DOMAIN d \cup {k} |-> IF q = k THEN v ELSE d[q]]

-----------------------------------------------------------------------------
VARIABLES
  clock,             \* the wall clock, in seconds
  maintenance_mode,  \* the global flag
  rules,             \* the rule dicts ever created, by identity
  lists,             \* the list objects holding rule dicts, by identity
  global_bloqueos,   \* the list object the global name is bound to
  config,            \* the config dict: its list object and its flag
  disk,              \* config.json as last written
  logs,              \* the global log list
  estadisticas,      \* the global stats dict
  pc,                \* where each resolver thread is in resolve
  loc,               \* each resolver thread's local variables
  hits,              \* history: per pattern, the queries decided since the last reset
  resets,            \* history: whether reset_stats ran
  appended,          \* history: every entry ever appended to logs
  snap,              \* history: per running scan, the first-match verdicts of
                     \* the rule set at each instant since the call started
  req,               \* the administrative requests being served
  calls, admins, ticks   \* counters that bound a run

vars == << clock, maintenance_mode, rules, lists, global_bloqueos, config, disk,
           logs, estadisticas, pc, loc, hits, resets, appended, snap, req,
           calls, admins, ticks >>

shared == << maintenance_mode, rules, lists, global_bloqueos, config, disk >>

\* the administrative requests, each served in a thread of its own
Requests == 1..MaxAdmin

\* a request not yet made: its route and argument, where it is in the
\* handler, the list object its comprehension has built, and the text
\* json.dump has put in the file object's buffer
NoReq == [op |-> "", arg |-> <<>>, at |-> "idle", new |-> 0, buf |-> <<>>]

ListIds == 1..(Cardinality(Threads) + MaxAdmin + 2)

NoLoc ==
  [ domain |-> <<>>, ts |-> <<>>, action |-> Action("", <<>>, <<>>),
    reply |-> EmptyReply, list |-> 0, idx |-> 0,
    pat |-> <<>>, ip |-> <<>>, cnt |-> 0 ]

\* list objects still referenced: by the global name, by the config dict, by
\* the iterator of a running scan
Live(g, cfg, l) == ({g, cfg.bloqueos} \cup {l[t].list : t \in Threads}) \ {0}

Collect(ls, g, cfg, l) ==
  [i \in ListIds |-> IF i \in Live(g, cfg, l) THEN ls[i] ELSE <<>>]

\* json.dump(config): the rule dicts of the config's list, and the flag
Dump(cfg, ls, rs) ==
  [ bloqueos |-> [i \in 1..Len(ls[cfg.bloqueos]) |-> rs[ls[cfg.bloqueos][i]]],
    maintenance |-> cfg.maintenance ]

\* lines 41-45: the globals made from load_config()'s result, a list of rule
\* dicts and the flag, at module load
Loaded(bloqueos, maintenance, clk, lg) ==
  /\ clock = clk
  /\ maintenance_mode = maintenance
  /\ rules = bloqueos
  /\ lists = [i \in ListIds |-> IF i = 1 THEN [k \in 1..Len(bloqueos) |-> k]
                                         ELSE <<>>]
  /\ global_bloqueos = 1
  /\ config = [bloqueos |-> 1, maintenance |-> maintenance]
  /\ disk = [bloqueos |-> bloqueos, maintenance |-> maintenance]
  /\ logs = lg
  /\ estadisticas = EmptyStats
  /\ pc = [t \in Threads |-> "idle"]
  /\ loc = [t \in Threads |-> NoLoc]
  /\ hits = EmptyStats
  /\ resets = FALSE
  /\ appended = lg
  /\ snap = [t \in Threads |-> {}]
  /\ req = [w \in Requests |-> NoReq]
  /\ calls = 0 /\ admins = 0 /\ ticks = 0

(***************************************************************************)
(* Rules loaded from config.json.                                          *)
(***************************************************************************)
Rule(pattern, ip, start, end, enabled) ==
  [pattern |-> pattern, ip |-> ip, start |-> start, end |-> end,
   enabled |-> enabled]

RuleStarB == Rule(<<"*", ".", "b", ".">>, IpZero, T0000, T2359, TRUE)
RuleAB    == Rule(<<"a", ".", "b", ".">>, IpRefused, <<>>, <<>>, TRUE)
RuleNight == Rule(<<"a", ".", "b", ".">>, IpRefused, T2200, T0600, TRUE)
RuleBad   == Rule(<<"a", ".", "b", ".">>, IpBad, <<>>, <<>>, TRUE)
RuleBadNight == Rule(<<"c", ".">>, IpBad, T2200, T0600, TRUE)

\* without a config.json: no rules, no maintenance
Init == Loaded(<<>>, FALSE, StartClock, <<>>)

-----------------------------------------------------------------------------
(***************************************************************************)
(* MiResolver.resolve, one step per access to the shared state.  The       *)
(* server runs each query in a thread of its own, so the steps of two      *)
(* calls, and the administrative requests, interleave.                     *)
(***************************************************************************)
Client == "10.0.0.7"

Entry(l) ==
  [ ts |-> l.ts, client |-> Client,
    query |-> [domain |-> l.domain, qtype |-> "A"], action |-> l.action ]

\* UpstreamReply with the failure answered SERVFAIL instead of the fresh
\* request.reply() of line 112
UpstreamReply_ServFail(r) ==
  IF r.ok THEN AddAnswer(EmptyReply, RR("A", r.ip))
          ELSE [EmptyReply EXCEPT !.rcode = "SERVFAIL"]

\* socket.gethostbyname (lines 106-113): an address, or an exception
UpstreamReply(r) ==
  IF r.ok THEN AddAnswer(EmptyReply, RR("A", r.ip)) ELSE EmptyReply

UpstreamAction(r) ==
  IF r.ok THEN Action("resolved external ", r.ip, <<>>)
          ELSE Action("error ", <<>>, <<>>)

\* Decides with the break taken at the first enabled rule that matches,
\* whatever its time window
Decides_IgnoringWindow(item, domain, clk) ==
  /\ item.enabled
  /\ matches_pattern(domain, item.pattern)

\* Decides without lines 88-89: a disabled rule is matched like any other
Decides_IgnoringEnabled(item, domain, clk) ==
  /\ matches_pattern(domain, item.pattern)
  /\ TimeActive(item.start, item.end, clk)

\* lines 88-96 for one rule dict: whether the scan stops at it
Decides(item, domain, clk) ==
  /\ item.enabled
  /\ matches_pattern(domain, item.pattern)
  /\ TimeActive(item.start, item.end, clk)

\* what a scan of list L at time clk makes of the domain: the pattern and the
\* target of the first rule that decides, or <<>> when none does
Verdict(L, rs, domain, clk) ==
  LET D == {i \in 1..Len(L) : Decides(rs[L[i]], domain, clk)}
  IN IF D = {} THEN <<>>
     ELSE LET i == CHOOSE k \in D : \A j \in D : k <= j
          IN << rs[L[i]].pattern, Strip(rs[L[i]].ip) >>

\* the verdicts of the running scans, with the one of the rule set L, rs at
\* time clk added
Resnap(L, rs, clk) ==
  [t \in Threads |->
     IF snap[t] = {} THEN {}
     ELSE snap[t] \cup {Verdict(L, rs, loc[t].domain, clk)}]

\* line 87: the iterator over the list the global name is bound to now
StartScan(t, l0) ==
  /\ loc' = [loc EXCEPT ![t] = [l0 EXCEPT !.list = global_bloqueos, !.idx = 0]]
  /\ pc' = [pc EXCEPT ![t] = "scan"]

\* Maintenance without the else of line 85: the rules are scanned after the
\* maintenance answer is made
Maintenance_ThenScan(t, l0) ==
  StartScan(t, [l0 EXCEPT !.reply = AddAnswer(@, RR("TXT", MaintenanceText)),
                          !.action = Action("maintenance mode", <<>>, <<>>)])

\* lines 82-84: the maintenance answer; the rules are not looked at
Maintenance(t, l0) ==
  /\ loc' = [loc EXCEPT ![t] =
        [l0 EXCEPT !.reply = AddAnswer(@, RR("TXT", MaintenanceText)),
                   !.action = Action("maintenance mode", <<>>, <<>>)]]
  /\ pc' = [pc EXCEPT ![t] = "append"]

\* lines 73-87: the timestamp is taken first, then maintenance_mode is read.
\* The threads being alike, thread t takes a query only when the threads
\* before it are busy.
Begin(t) ==
  /\ pc[t] = "idle"
  /\ \A u \in Threads : u < t => pc[u] # "idle"
  /\ calls < MaxCalls
  /\ \E d \in Domains :
       LET l0 == [NoLoc EXCEPT !.domain = d, !.ts = Strftime(clock),
                               !.action = Action("resolved", <<>>, <<>>)]
       IN /\ IF maintenance_mode THEN Maintenance(t, l0) ELSE StartScan(t, l0)
          /\ snap' = [snap EXCEPT ![t] =
                IF maintenance_mode THEN {}
                ELSE {Verdict(lists[global_bloqueos], rules, d, clock)}]
  /\ calls' = calls + 1
  /\ UNCHANGED << clock, shared, logs, estadisticas, hits, resets, appended,
                  req, admins, ticks >>

\* lines 87-97 and 105-113: the next rule of the list; the loop ends when
\* the list is exhausted, with the call of the system resolver, or breaks at
\* the rule that decides, whose counter is read here
\* (estadisticas.get(pat, 0) + 1) and written in the next step
Scan(t) ==
  /\ pc[t] = "scan"
  /\ LET l == loc[t]
         L == lists[l.list]
     IN IF l.idx >= Len(L)
          THEN \E r \in UpstreamResults :
                 LET nl == [loc EXCEPT ![t].list = 0, ![t].idx = 0,
                                       ![t].reply = UpstreamReply(r),
                                       ![t].action = UpstreamAction(r)]
                 IN /\ loc' = nl
                    /\ lists' = Collect(lists, global_bloqueos, config, nl)
                    /\ pc' = [pc EXCEPT ![t] = "append"]
          ELSE LET item == rules[L[l.idx + 1]]
               IN IF Decides(item, l.domain, clock)
                    THEN LET nl == [loc EXCEPT
                                 ![t].list = 0, ![t].idx = 0,
                                 ![t].pat = item.pattern,
                                 ![t].ip = Strip(item.ip),
                                 ![t].cnt = Get(estadisticas, item.pattern) + 1]
                         IN /\ loc' = nl
                            /\ lists' = Collect(lists, global_bloqueos, config, nl)
                            /\ pc' = [pc EXCEPT ![t] = "count"]
                    ELSE /\ loc' = [loc EXCEPT ![t].idx = @ + 1]
                         /\ lists' = lists
                         /\ pc' = pc
  /\ UNCHANGED << clock, maintenance_mode, rules, global_bloqueos, config, disk,
                  logs, estadisticas, hits, resets, appended, snap, req,
                  calls, admins, ticks >>

\* lines 97-104: the counter is stored, then the reply is built; A(ip_redir)
\* raises on a target that is no IPv4 address, and the exception leaves
\* resolve
Count(t) ==
  /\ pc[t] = "count"
  /\ estadisticas' = Put(estadisticas, loc[t].pat, loc[t].cnt)
  /\ hits' = Put(hits, loc[t].pat, Get(hits, loc[t].pat) + 1)
  /\ IF Upper(loc[t].ip) = Refused
       THEN /\ loc' = [loc EXCEPT
                 ![t].reply = [@ EXCEPT !.rcode = "REFUSED"],
                 ![t].action = Action("refused @ ", <<>>, loc[t].pat)]
            /\ pc' = [pc EXCEPT ![t] = "append"]
       ELSE IF IsIPv4(loc[t].ip)
         THEN /\ loc' = [loc EXCEPT
                   ![t].reply = AddAnswer(@, RR("A", loc[t].ip)),
                   ![t].action = Action("redirect to ", loc[t].ip, loc[t].pat)]
              /\ pc' = [pc EXCEPT ![t] = "append"]
         ELSE /\ loc' = loc
              /\ pc' = [pc EXCEPT ![t] = "raised"]
  /\ UNCHANGED << clock, shared, logs, resets, appended, snap, req,
                  calls, admins, ticks >>

\* line 115
AppendLog(t) ==
  /\ pc[t] = "append"
  /\ logs' = Append(logs, Entry(loc[t]))
  /\ appended' = Append(appended, Entry(loc[t]))
  /\ pc' = [pc EXCEPT ![t] = "trim"]
  /\ UNCHANGED << clock, shared, estadisticas, loc, hits, resets, snap, req,
                  calls, admins, ticks >>

\* LastN with the other end of the list kept: del logs[LOG_LIMIT:]
LastN_KeepsOldest(s, n) == IF Len(s) <= n THEN s ELSE SubSeq(s, 1, n)

\* del logs[:-LOG_LIMIT]
LastN(s, n) == IF Len(s) <= n THEN s ELSE SubSeq(s, Len(s) - n + 1, Len(s))

\* lines 116-118: the log is cut, and the reply goes back to the server
Trim(t) ==
  /\ pc[t] = "trim"
  /\ logs' = IF Len(logs) > LOG_LIMIT THEN LastN(logs, LOG_LIMIT) ELSE logs
  /\ pc' = [pc EXCEPT ![t] = "idle"]
  /\ loc' = [loc EXCEPT ![t] = NoLoc]
  /\ snap' = [snap EXCEPT ![t] = {}]
  /\ UNCHANGED << clock, shared, estadisticas, hits, resets, appended, req,
                  calls, admins, ticks >>

\* the ValueError of line 102 leaves resolve: lines 115-118 do not run
Raise(t) ==
  /\ pc[t] = "raised"
  /\ pc' = [pc EXCEPT ![t] = "idle"]
  /\ loc' = [loc EXCEPT ![t] = NoLoc]
  /\ snap' = [snap EXCEPT ![t] = {}]
  /\ UNCHANGED << clock, shared, logs, estadisticas, hits, resets, appended,
                  req, calls, admins, ticks >>

Resolve(t) ==
  \/ Begin(t)
  \/ Scan(t)
  \/ Count(t)
  \/ AppendLog(t)
  \/ Trim(t)
  \/ Raise(t)

-----------------------------------------------------------------------------
(***************************************************************************)
(* The administrative routes, each a whole request.                        *)
(***************************************************************************)
\* save_config(config)
Saved(cfg, ls, rs) == Dump(cfg, ls, rs)

\* lines 255-261
AddBlock(f) ==
  /\ admins < MaxAdmin
  /\ Len(rules) < MaxRules
  /\ LET p0  == Strip(f.pattern)
         pat == IF EndsWith(p0, ".") THEN p0 ELSE p0 \o <<".">>
         new == [ pattern |-> pat, ip |-> Strip(f.ip),
                  start |-> f.start, end |-> f.end, enabled |-> TRUE ]
         id  == Len(rules) + 1
     IN /\ rules' = Append(rules, new)
        /\ lists' = [lists EXCEPT ![global_bloqueos] = Append(@, id)]
        /\ config' = [config EXCEPT !.bloqueos = global_bloqueos]
        /\ disk' = Saved(config', lists', rules')
  /\ admins' = admins + 1
  /\ snap' = Resnap(lists'[global_bloqueos], rules', clock)
  /\ UNCHANGED << clock, maintenance_mode, global_bloqueos, logs, estadisticas,
                  pc, loc, hits, resets, appended, req, calls, ticks >>

\* Without that drops only the first rule with the pattern
RECURSIVE Without_FirstOnly(_, _, _)
Without_FirstOnly(L, rs, pat) ==
  IF L = <<>> THEN <<>>
  ELSE IF rs[Head(L)].pattern # pat
    THEN <<Head(L)>> \o Without_FirstOnly(Tail(L), rs, pat)
    ELSE Tail(L)

\* [i for i in global_bloqueos if i['pattern'] != pat]
RECURSIVE Without(_, _, _)
Without(L, rs, pat) ==
  IF L = <<>> THEN <<>>
  ELSE IF rs[Head(L)].pattern # pat
    THEN <<Head(L)>> \o Without(Tail(L), rs, pat)
    ELSE Without(Tail(L), rs, pat)

\* lines 267-272: the global name is bound to a new list object
RemoveBlock(pat) ==
  /\ admins < MaxAdmin
  /\ LET new == CHOOSE i \in ListIds :
                  /\ i \notin Live(global_bloqueos, config, loc)
                  /\ \A j \in ListIds :
                       j \notin Live(global_bloqueos, config, loc) => i <= j
         ncfg == [config EXCEPT !.bloqueos = new]
         nls  == [lists EXCEPT ![new] = Without(lists[global_bloqueos], rules, pat)]
     IN /\ global_bloqueos' = new
        /\ config' = ncfg
        /\ lists' = Collect(nls, new, ncfg, loc)
        /\ disk' = Saved(config', lists', rules)
  /\ admins' = admins + 1
  /\ snap' = Resnap(lists'[global_bloqueos'], rules, clock)
  /\ UNCHANGED << clock, maintenance_mode, rules, logs, estadisticas,
                  pc, loc, hits, resets, appended, req, calls, ticks >>

\* the positions in L of the rule dicts with this pattern
Holding(L, rs, pat) == {i \in 1..Len(L) : rs[L[i]].pattern = pat}

\* Toggled without the break of line 284: every rule dict with the pattern
\* is changed
Toggled_All(L, rs, pat) ==
  [k \in DOMAIN rs |->
     IF \E i \in Holding(L, rs, pat) : L[i] = k
       THEN [rs[k] EXCEPT !.enabled = ~ @] ELSE rs[k]]

\* lines 279-284: the first rule dict of the list with the pattern is
\* changed in place
Toggled(L, rs, pat) ==
  LET H == Holding(L, rs, pat)
  IN IF H = {}
       THEN rs
       ELSE LET i == CHOOSE k \in H : \A j \in H : k <= j
            IN [rs EXCEPT ![L[i]].enabled = ~ @]

\* lines 278-288
ToggleRule(pat) ==
  /\ admins < MaxAdmin
  /\ rules' = Toggled(lists[global_bloqueos], rules, pat)
  /\ config' = [config EXCEPT !.bloqueos = global_bloqueos]
  /\ disk' = Saved(config', lists, rules')
  /\ admins' = admins + 1
  /\ snap' = Resnap(lists[global_bloqueos], rules', clock)
  /\ UNCHANGED << clock, maintenance_mode, lists, global_bloqueos, logs,
                  estadisticas, pc, loc, hits, resets, appended, req,
                  calls, ticks >>

\* toggle_maintenance without the global statement of line 244: the
\* assignment makes a local name, the global flag stays as it was
ToggleMaintenance_NoGlobal ==
  /\ admins < MaxAdmin
  /\ maintenance_mode' = maintenance_mode
  /\ config' = [config EXCEPT !.maintenance = ~ maintenance_mode]
  /\ disk' = Saved(config', lists, rules)
  /\ admins' = admins + 1
  /\ UNCHANGED << clock, rules, lists, global_bloqueos, logs, estadisticas,
                  pc, loc, hits, resets, appended, snap, req, calls, ticks >>

\* lines 244-248
ToggleMaintenance ==
  /\ admins < MaxAdmin
  /\ maintenance_mode' = ~ maintenance_mode
  /\ config' = [config EXCEPT !.maintenance = maintenance_mode']
  /\ disk' = Saved(config', lists, rules)
  /\ admins' = admins + 1
  /\ UNCHANGED << clock, rules, lists, global_bloqueos, logs, estadisticas,
                  pc, loc, hits, resets, appended, snap, req, calls, ticks >>

\* line 294: estadisticas.clear()
ResetStats ==
  /\ admins < MaxAdmin
  /\ estadisticas' = EmptyStats
  /\ hits' = EmptyStats
  /\ resets' = TRUE
  /\ admins' = admins + 1
  /\ UNCHANGED << clock, shared, logs, pc, loc, appended, snap, req,
                  calls, ticks >>

\* time passes
Tick ==
  /\ ticks < MaxTicks
  /\ \E d \in TickSteps : clock' = clock + d
  /\ ticks' = ticks + 1
  /\ snap' = Resnap(lists[global_bloqueos], rules, clock')
  /\ UNCHANGED << shared, logs, estadisticas, pc, loc, hits, resets, appended,
                  req, calls, admins >>

Admin ==
  \/ \E f \in Forms : AddBlock(f)
  \/ \E p \in PatternArgs : RemoveBlock(p)
  \/ \E p \in PatternArgs : ToggleRule(p)
  \/ ToggleMaintenance
  \/ ResetStats

-----------------------------------------------------------------------------
(***************************************************************************)
(* The administrative routes as the threaded server runs them: each        *)
(* request in a thread of its own, a step per access to the shared state,  *)
(* so that the handlers of requests in flight interleave.                  *)
(***************************************************************************)
\* the length of the text json.dump(cfg, f, indent=2) writes for d
BoolLen(b) == IF b THEN 4 ELSE 5

RECURSIVE RulesLen(_)
RulesLen(rs) ==
  IF rs = <<>> THEN 0
  ELSE 104 + Len(Head(rs).pattern) + Len(Head(rs).ip) + Len(Head(rs).start)
           + Len(Head(rs).end) + BoolLen(Head(rs).enabled) + RulesLen(Tail(rs))

JsonLen(d) ==
  39 + (IF d.bloqueos = <<>> THEN 0 ELSE 2) + RulesLen(d.bloqueos)
     + BoolLen(d.maintenance)

\* config.json just opened with 'w'
EmptyFile == [empty |-> TRUE]

FileLen(d) ==
  IF d = EmptyFile THEN 0
  ELSE JsonLen(d) + (IF "trailing" \in DOMAIN d THEN d.trailing ELSE 0)

\* closing the file object writes its buffer at offset 0 of the file as it
\* is then: what another file object wrote beyond the buffer's length stays
Flush(buf, d) ==
  IF JsonLen(buf) >= FileLen(d) THEN buf
  ELSE [bloqueos |-> buf.bloqueos, maintenance |-> buf.maintenance,
        trailing |-> FileLen(d) - JsonLen(buf)]

\* list objects still referenced, the comprehension results of the requests
\* in flight included
LiveReq(g, cfg, l, rq) == (Live(g, cfg, l) \cup {rq[w].new : w \in Requests}) \ {0}

CollectReq(ls, g, cfg, l, rq) ==
  [i \in ListIds |-> IF i \in LiveReq(g, cfg, l, rq) THEN ls[i] ELSE <<>>]

\* a request arrives; the requests being alike, request w is made only when
\* the requests before it have been
Arrives(w) ==
  /\ req[w].at = "idle"
  /\ \A v \in Requests : v < w => req[v].at # "idle"

\* add_block, lines 255-258: the rule dict is appended to the list the
\* global name is bound to
ReqAdd(w, f) ==
  /\ Arrives(w)
  /\ Len(rules) < MaxRules
  /\ LET p0  == Strip(f.pattern)
         pat == IF EndsWith(p0, ".") THEN p0 ELSE p0 \o <<".">>
         new == [ pattern |-> pat, ip |-> Strip(f.ip),
                  start |-> f.start, end |-> f.end, enabled |-> TRUE ]
     IN /\ rules' = Append(rules, new)
        /\ lists' = [lists EXCEPT ![global_bloqueos] = Append(@, Len(rules) + 1)]
        /\ req' = [req EXCEPT ![w] = [NoReq EXCEPT !.op = "add", !.arg = pat,
                                                   !.at = "config"]]
  /\ snap' = Resnap(lists'[global_bloqueos], rules', clock)
  /\ UNCHANGED << clock, maintenance_mode, global_bloqueos, config, disk, logs,
                  estadisticas, pc, loc, hits, resets, appended,
                  calls, admins, ticks >>

\* remove_block, lines 267-269: the comprehension builds a new list object
\* from the list the global name is bound to
ReqRemove(w, pat) ==
  /\ Arrives(w)
  /\ LET new == CHOOSE i \in ListIds :
                  /\ i \notin LiveReq(global_bloqueos, config, loc, req)
                  /\ \A j \in ListIds :
                       j \notin LiveReq(global_bloqueos, config, loc, req)
                         => i <= j
     IN /\ lists' = [lists EXCEPT
                       ![new] = Without(lists[global_bloqueos], rules, pat)]
        /\ req' = [req EXCEPT ![w] = [NoReq EXCEPT !.op = "remove", !.arg = pat,
                                                   !.at = "bind", !.new = new]]
  /\ UNCHANGED << clock, maintenance_mode, rules, global_bloqueos, config, disk,
                  logs, estadisticas, pc, loc, hits, resets, appended, snap,
                  calls, admins, ticks >>

\* remove_block, line 269: the global name is bound to the new list
ReqBind(w) ==
  /\ req[w].at = "bind"
  /\ global_bloqueos' = req[w].new
  /\ req' = [req EXCEPT ![w].at = "config", ![w].new = 0]
  /\ lists' = CollectReq(lists, global_bloqueos', config, loc, req')
  /\ snap' = Resnap(lists'[global_bloqueos'], rules, clock)
  /\ UNCHANGED << clock, maintenance_mode, rules, config, disk, logs,
                  estadisticas, pc, loc, hits, resets, appended,
                  calls, admins, ticks >>

\* toggle_rule, lines 278-284
ReqToggle(w, pat) ==
  /\ Arrives(w)
  /\ rules' = Toggled(lists[global_bloqueos], rules, pat)
  /\ req' = [req EXCEPT ![w] = [NoReq EXCEPT !.op = "toggle", !.arg = pat,
                                             !.at = "config"]]
  /\ snap' = Resnap(lists[global_bloqueos], rules', clock)
  /\ UNCHANGED << clock, maintenance_mode, lists, global_bloqueos, config, disk,
                  logs, estadisticas, pc, loc, hits, resets, appended,
                  calls, admins, ticks >>

\* toggle_maintenance, lines 244-245
ReqMaintenance(w) ==
  /\ Arrives(w)
  /\ maintenance_mode' = ~ maintenance_mode
  /\ req' = [req EXCEPT ![w] = [NoReq EXCEPT !.op = "maintenance",
                                             !.at = "config"]]
  /\ UNCHANGED << clock, rules, lists, global_bloqueos, config, disk, logs,
                  estadisticas, pc, loc, hits, resets, appended, snap,
                  calls, admins, ticks >>

\* lines 246, 259, 270, 287: the config dict takes the global's value of now
ReqConfig(w) ==
  /\ req[w].at = "config"
  /\ config' = IF req[w].op = "maintenance"
                 THEN [config EXCEPT !.maintenance = maintenance_mode]
                 ELSE [config EXCEPT !.bloqueos = global_bloqueos]
  /\ lists' = CollectReq(lists, global_bloqueos, config', loc, req)
  /\ req' = [req EXCEPT ![w].at = "open"]
  /\ UNCHANGED << clock, maintenance_mode, rules, global_bloqueos, disk, logs,
                  estadisticas, pc, loc, hits, resets, appended, snap,
                  calls, admins, ticks >>

\* save_config, line 37: open(CONFIG_FILE, 'w') empties the file
ReqOpen(w) ==
  /\ req[w].at = "open"
  /\ disk' = EmptyFile
  /\ req' = [req EXCEPT ![w].at = "dump"]
  /\ UNCHANGED << clock, maintenance_mode, rules, lists, global_bloqueos, config,
                  logs, estadisticas, pc, loc, hits, resets, appended, snap,
                  calls, admins, ticks >>

\* save_config, line 38: json.dump puts the text of the config dict, as it
\* is now, in the buffer of the file object
ReqDump(w) ==
  /\ req[w].at = "dump"
  /\ req' = [req EXCEPT ![w].at = "close",
                        ![w].buf = Dump(config, lists, rules)]
  /\ UNCHANGED << clock, shared, logs, estadisticas, pc, loc, hits, resets,
                  appended, snap, calls, admins, ticks >>

\* save_config, the end of the with block: the buffer is written out
ReqClose(w) ==
  /\ req[w].at = "close"
  /\ disk' = Flush(req[w].buf, disk)
  /\ req' = [req EXCEPT ![w].at = "done", ![w].buf = <<>>]
  /\ UNCHANGED << clock, maintenance_mode, rules, lists, global_bloqueos, config,
                  logs, estadisticas, pc, loc, hits, resets, appended, snap,
                  calls, admins, ticks >>

Request(w) ==
  \/ \E f \in Forms : ReqAdd(w, f)
  \/ \E p \in PatternArgs : ReqRemove(w, p)
  \/ ReqBind(w)
  \/ \E p \in PatternArgs : ReqToggle(w, p)
  \/ ReqMaintenance(w)
  \/ ReqConfig(w)
  \/ ReqOpen(w)
  \/ ReqDump(w)
  \/ ReqClose(w)

-----------------------------------------------------------------------------
(***************************************************************************)
(* The program: resolver threads, administrative requests and the clock,   *)
(* interleaved.                                                            *)
(***************************************************************************)
Next ==
  \/ \E t \in Threads : Resolve(t)
  \/ Admin
  \/ Tick

Spec == Init /\ [][Next]_vars

\* the same program started with a config.json that holds one rule
InitLoaded == Loaded(<<RuleStarB>>, FALSE, StartClock, <<>>)

SpecLoaded == InitLoaded /\ [][Next]_vars

(***************************************************************************)
(* Queries answered one after the other: no administrative request and no  *)
(* tick of the clock falls inside a call of resolve.                       *)
(***************************************************************************)
NextSeq ==
  \/ Resolve(1)
  \/ pc[1] = "idle" /\ Admin
  \/ pc[1] = "idle" /\ Tick

InitSeq ==
  \E cfg \in { <<>>, <<RuleNight, RuleStarB>> } :
    Loaded(cfg, FALSE, StartClock, <<>>)

SpecSeq == InitSeq /\ [][NextSeq]_vars

(***************************************************************************)
(* One resolver thread, with the administrative requests and the clock     *)
(* interleaved with its steps.                                             *)
(***************************************************************************)
NextOne ==
  \/ Resolve(1)
  \/ Admin
  \/ Tick

SpecOne == InitLoaded /\ [][NextOne]_vars

(***************************************************************************)
(* Two resolver threads while maintenance is switched on and off and the   *)
(* statistics are reset, over rules loaded from config.json.               *)
(***************************************************************************)
InitMaint ==
  \E m \in BOOLEAN, cfg \in { <<RuleAB, RuleStarB>>, <<RuleBad>> } :
    Loaded(cfg, m, StartClock, <<>>)

NextMaint ==
  \/ \E t \in Threads : Resolve(t)
  \/ ToggleMaintenance
  \/ ResetStats

SpecMaint == InitMaint /\ [][NextMaint]_vars

(***************************************************************************)
(* Two resolver threads on a server that has answered LOG_LIMIT - 1 or     *)
(* LOG_LIMIT queries already, one a second since midnight, none of them    *)
(* resolved upstream; the clock advances meanwhile.                        *)
(***************************************************************************)
PastEntry(i) ==
  [ ts |-> Strftime(i), client |-> Client,
    query |-> [domain |-> <<"c", ".">>, qtype |-> "A"],
    action |-> Action("error ", <<>>, <<>>) ]

InitLog ==
  \E n \in {LOG_LIMIT - 1, LOG_LIMIT} :
    Loaded(<<RuleStarB, RuleBadNight>>, FALSE, StartClock,
           [i \in 1..n |-> PastEntry(i)])

NextLog ==
  \/ \E t \in Threads : Resolve(t)
  \/ Tick

SpecLog == InitLog /\ [][NextLog]_vars

(***************************************************************************)
(* dentro_de_franja on its inputs: one resolver thread over one enabled    *)
(* rule for *.b. whose start and end are drawn from strings the /add form  *)
(* or config.json can hold, started at a time of day drawn from Clocks.    *)
(* No rule of this configuration has a target that raises.                 *)
(***************************************************************************)
TimeStrs ==
  { <<>>, T0000, T2359, T2200, T0600,
    <<"9", ":", "5">>,
    <<"b", "a", "d">>,
    <<"2", "4", ":", "0", "0">>,
    <<"1", "2", ":", "6", "0">>,
    <<"1", "2", ":", "0", "0", ":", "3", "0">> }

Clocks ==
  { h * 3600 + m * 60 + sec :
      h \in {2, 6, 12, 22, 23}, m \in {0, 30, 59}, sec \in {0, 30} }

InitTime ==
  \E s \in TimeStrs, e \in TimeStrs, c \in Clocks :
    Loaded(<<Rule(<<"*", ".", "b", ".">>, IpZero, s, e, TRUE)>>, FALSE, c, <<>>)

NextTime ==
  \/ Begin(1)
  \/ Scan(1)
  \/ Count(1)
  \/ AppendLog(1)
  \/ Trim(1)

SpecTime == InitTime /\ [][NextTime]_vars

(***************************************************************************)
(* One resolver thread scanning while the rules are added, removed and     *)
(* toggled: a server loaded with a disabled rule for a.b. ahead of an      *)
(* enabled rule for *.b.                                                   *)
(***************************************************************************)
InitScan ==
  Loaded(<< [RuleBad EXCEPT !.enabled = FALSE], RuleStarB >>, FALSE,
         StartClock, <<>>)

NextScan ==
  \/ Resolve(1)
  \/ \E f \in Forms : AddBlock(f)
  \/ \E p \in PatternArgs : RemoveBlock(p)
  \/ \E p \in PatternArgs : ToggleRule(p)

SpecScan == InitScan /\ [][NextScan]_vars

(***************************************************************************)
(* Resolver threads while maintenance is switched on and off, on a server  *)
(* started with maintenance off.                                           *)
(***************************************************************************)
InitToggle ==
  \E cfg \in { <<RuleAB, RuleStarB>>, <<RuleBad>> } :
    Loaded(cfg, FALSE, StartClock, <<>>)

NextToggle ==
  \/ \E t \in Threads : Resolve(t)
  \/ ToggleMaintenance

SpecToggle == InitToggle /\ [][NextToggle]_vars

(***************************************************************************)
(* Administrative requests in flight together, on a server loaded with two *)
(* enabled rules; no query is asked.                                       *)
(***************************************************************************)
AdminConfig == <<RuleStarB, RuleAB>>

InitAdmin == Loaded(AdminConfig, FALSE, StartClock, <<>>)

NextAdmin == \E w \in Requests : Request(w)

SpecAdmin == InitAdmin /\ [][NextAdmin]_vars

-----------------------------------------------------------------------------
(***************************************************************************)
(* The properties.                                                         *)
(***************************************************************************)
AllIdle == \A t \in Threads : pc[t] = "idle"

\* the positions of list L whose rule is enabled, matches the domain and is
\* inside its time window
Eligible(L, domain, clk) ==
  { i \in 1..Len(L) :
      /\ rules[L[i]].enabled
      /\ matches_pattern(domain, rules[L[i]].pattern)
      /\ TimeActive(rules[L[i]].start, rules[L[i]].end, clk) }

\* the lowest eligible position, 0 when there is none
Winner(L, domain, clk) ==
  IF Eligible(L, domain, clk) = {} THEN 0
  ELSE CHOOSE i \in Eligible(L, domain, clk) :
         \A j \in Eligible(L, domain, clk) : i <= j

\* the reply and the log action a rule gives
RuleReply(r) ==
  IF Upper(Strip(r.ip)) = Refused
    THEN [rcode |-> "REFUSED", answers |-> <<>>]
    ELSE [rcode |-> "NOERROR",
          answers |-> << [rtype |-> "A", rdata |-> Strip(r.ip), ttl |-> 60] >>]

RuleAction(r) ==
  IF Upper(Strip(r.ip)) = Refused
    THEN [kind |-> "refused @ ", ip |-> <<>>, pat |-> r.pattern]
    ELSE [kind |-> "redirect to ", ip |-> Strip(r.ip), pat |-> r.pattern]

\* C1: with maintenance off, the query is decided by the first rule, in the
\* stored order, that is enabled, matches the domain and is inside its time
\* window: the counter written is that rule's pattern's, one more than it
\* was, the reply and the log action are that rule's, and every counter
\* holds the number of queries its pattern decided; without such a rule the
\* answer is the upstream resolver's.  (Queries answered one after the
\* other.)
C1_FirstMatchWins ==
  LET L == lists[global_bloqueos]
      l == loc[1]
      W == Winner(L, l.domain, clock)
  IN /\ pc[1] \in {"count", "raised"} =>
          /\ W # 0
          /\ l.pat = rules[L[W]].pattern
          /\ l.ip = Strip(rules[L[W]].ip)
     /\ pc[1] = "count" => l.cnt = Get(estadisticas, rules[L[W]].pattern) + 1
     /\ (pc[1] \in {"append", "trim"} /\ ~ maintenance_mode) =>
          IF W = 0
            THEN l.action.kind \in {"resolved external ", "error "}
            ELSE /\ l.reply = RuleReply(rules[L[W]])
                 /\ l.action = RuleAction(rules[L[W]])
     /\ \A p \in DOMAIN estadisticas \cup DOMAIN hits :
          Get(estadisticas, p) = Get(hits, p)

\* a query decided by the second rule of the list, the first one matching
\* the domain too but disabled or outside its time window
C1_Witness ==
  LET L == lists[global_bloqueos]
  IN /\ pc[1] = "trim"
     /\ ~ maintenance_mode
     /\ Len(L) >= 2
     /\ matches_pattern(loc[1].domain, rules[L[1]].pattern)
     /\ Winner(L, loc[1].domain, clock) = 2
     /\ loc[1].action = RuleAction(rules[L[2]])
     /\ Get(estadisticas, rules[L[2]].pattern) >= 1

\* the fixed maintenance answer
MaintenanceReply ==
  [rcode |-> "NOERROR",
   answers |-> << [rtype |-> "TXT",
                   rdata |-> "PabloDNS: Estamos en mantenimiento",
                   ttl |-> 60] >>]

MaintenanceAction == [kind |-> "maintenance mode", ip |-> <<>>, pat |-> <<>>]

\* C2: a call of resolve that reads maintenance_mode as true goes straight
\* to the log with the TXT maintenance answer and the action "maintenance
\* mode": it takes no iterator over the rules, never scans, counts or calls
\* the upstream resolver, none of its steps changes estadisticas, and the
\* entry it appends carries that action.
C2_MaintenanceShortCircuit ==
  [][ \A t \in Threads :
        /\ (pc[t] = "idle" /\ pc'[t] # "idle" /\ maintenance_mode) =>
              /\ pc'[t] = "append"
              /\ loc'[t].reply = MaintenanceReply
              /\ loc'[t].action = MaintenanceAction
              /\ loc'[t].list = 0
              /\ estadisticas' = estadisticas
        /\ (pc[t] = "append" /\ loc[t].action = MaintenanceAction
              /\ pc'[t] # pc[t]) =>
              /\ pc'[t] = "trim"
              /\ loc'[t].reply = MaintenanceReply
              /\ appended' = Append(appended,
                   [ts |-> loc[t].ts, client |-> Client,
                    query |-> [domain |-> loc[t].domain, qtype |-> "A"],
                    action |-> MaintenanceAction])
              /\ estadisticas' = estadisticas
        /\ (pc[t] = "trim" /\ loc[t].action = MaintenanceAction
              /\ pc'[t] # pc[t]) =>
              /\ pc'[t] = "idle"
              /\ loc[t].reply = MaintenanceReply
              /\ estadisticas' = estadisticas
    ]_vars

\* a query in maintenance mode about to be answered, while an enabled rule
\* of the list matches its domain inside its time window
C2_Witness ==
  \E t \in Threads :
    /\ pc[t] = "trim"
    /\ loc[t].action = MaintenanceAction
    /\ loc[t].reply = MaintenanceReply
    /\ Winner(lists[global_bloqueos], loc[t].domain, clock) # 0

\* C3: with no reset so far, once every call of resolve has completed each
\* counter holds the number of queries decided by a rule with its pattern.
C3_NoLostIncrement ==
  (AllIdle /\ ~ resets) =>
     \A p \in DOMAIN estadisticas \cup DOMAIN hits :
        Get(estadisticas, p) = Get(hits, p)

\* C4: once the resolver is done, each counter holds the number of
\* increments stored since the last reset: nothing counted before the reset
\* is seen after it.
C4_ResetAtomic ==
  pc[1] = "idle" =>
     \A p \in DOMAIN estadisticas \cup DOMAIN hits :
        Get(estadisticas, p) = Get(hits, p)

\* the kinds of reply of the resolver
ReplyKind(reply) ==
  IF reply.rcode = "REFUSED" /\ reply.answers = <<>> THEN "REFUSED"
  ELSE IF reply.rcode = "NOERROR" /\ reply.answers = <<>> THEN "NOERROR-empty"
  ELSE IF reply.rcode = "NOERROR" /\ Len(reply.answers) = 1
    THEN reply.answers[1].rtype
  ELSE "other"

\* C7: no call of resolve ends in an exception, and the reply a call is
\* about to return is a TXT answer, an A answer, REFUSED or NOERROR-empty.
C7_AlwaysReplies ==
  \A t \in Threads :
    /\ pc[t] # "raised"
    /\ pc[t] \in {"append", "trim"} =>
         ReplyKind(loc[t].reply) \in {"TXT", "A", "REFUSED", "NOERROR-empty"}

\* C5: the log never holds more than 100 entries.
C5_LogBounded == Len(logs) <= 100

\* C6: when no call of resolve is running, the log is the last min(N, 100)
\* of the N entries appended so far, in the order they were appended.
C6_LogIsLastAppended ==
  AllIdle =>
    LET N == Len(appended)
        K == IF N <= 100 THEN N ELSE 100
    IN /\ Len(logs) = K
       /\ \A i \in 1..K : logs[i] = appended[N - K + i]

\* no call is running, more than 100 entries were appended, and the newest
\* of them is the last of the log
C6_Witness ==
  /\ AllIdle
  /\ Len(appended) > 100
  /\ Len(logs) = 100
  /\ logs[100] = appended[Len(appended)]
  /\ logs[1] # appended[1]

\* hour:minute strings and the hour and minute each of them names
DigitChars == <<"0", "1", "2", "3", "4", "5", "6", "7", "8", "9">>
TwoDigits(n) == << DigitChars[(n \div 10) + 1], DigitChars[(n % 10) + 1] >>
HourMinute ==
  { [str |-> TwoDigits(hm[1]) \o <<":">> \o TwoDigits(hm[2]),
     h |-> hm[1], m |-> hm[2]] :
      hm \in { <<0, 0>>, <<23, 59>>, <<22, 0>>, <<6, 0>> } }
  \cup { [str |-> <<"9", ":", "5">>, h |-> 9, m |-> 5] }
Parseable == { k.str : k \in HourMinute }
SecondOfDay(k) == (k.h * 60 + k.m) * 60

\* the rule of the time-window runs, the query it matches, and what the scan
\* made of the rule: it decided the query, or it was passed over
WindowRule == rules[lists[global_bloqueos][1]]
Asked == pc[1] # "idle" /\ loc[1].domain = <<"a", ".", "b", ".">>
Decided ==
  /\ Asked
  /\ \/ pc[1] = "count"
     \/ pc[1] \in {"append", "trim"} /\ loc[1].action.kind = "redirect to "
PassedOver ==
  /\ Asked
  /\ \/ pc[1] = "scan" /\ loc[1].idx = 1
     \/ /\ pc[1] \in {"append", "trim"}
        /\ loc[1].action.kind \in {"resolved external ", "error "}
InWindow(S, E, now) ==
  \/ S <= E /\ S <= now /\ now <= E
  \/ S > E /\ (now >= S \/ now <= E)

\* C8: for a start and an end that parse as hour:minute, the rule decides a
\* query it matches iff start <= end and start <= now <= end, or start > end
\* and (now >= start or now <= end), now being the time of day; a window
\* 22:00-06:00 decides at 23:30 and at 02:00 and is passed over at 12:00.
C8_WindowActive ==
  /\ \A a \in HourMinute, b \in HourMinute :
       (WindowRule.start = a.str /\ WindowRule.end = b.str) =>
          /\ Decided =>
               InWindow(SecondOfDay(a), SecondOfDay(b), clock % SecondsPerDay)
          /\ PassedOver =>
               ~ InWindow(SecondOfDay(a), SecondOfDay(b), clock % SecondsPerDay)
  /\ (WindowRule.start = T2200 /\ WindowRule.end = T0600) =>
       /\ clock % SecondsPerDay \in {23 * 3600 + 30 * 60, 2 * 3600} =>
            ~ PassedOver
       /\ clock % SecondsPerDay = 12 * 3600 => ~ Decided

\* the window 22:00-06:00 has decided a query asked at 23:30
C8_Witness ==
  /\ WindowRule.start = T2200
  /\ WindowRule.end = T0600
  /\ clock % SecondsPerDay = 23 * 3600 + 30 * 60
  /\ Decided
  /\ pc[1] = "trim"

\* C9: whenever the hour and minute of the time of day are those of the
\* rule's start or of its end, at any second of that minute, the rule is not
\* passed over; a rule with the window 00:00-23:59 is never passed over.
C9_BoundariesInclusive ==
  /\ \A a \in HourMinute, b \in HourMinute :
       ( /\ WindowRule.start = a.str
         /\ WindowRule.end = b.str
         /\ (clock % SecondsPerDay) \div 60 \in {a.h * 60 + a.m, b.h * 60 + b.m} )
       => ~ PassedOver
  /\ (WindowRule.start = T0000 /\ WindowRule.end = T2359) => ~ PassedOver

\* C10: a rule whose start or end is empty, or does not parse as
\* hour:minute, is never passed over by a query it matches, and the scan
\* ends in no exception.
C10_FailOpen ==
  /\ ( \/ WindowRule.start = <<>>
       \/ WindowRule.end = <<>>
       \/ WindowRule.start \notin Parseable
       \/ WindowRule.end \notin Parseable ) => ~ PassedOver
  /\ pc[1] # "raised"

\* a rule with start "bad" and end 06:00 has decided a query asked at noon
C10_Witness ==
  /\ WindowRule.start = <<"b", "a", "d">>
  /\ WindowRule.end = T0600
  /\ clock % SecondsPerDay = 12 * 3600
  /\ Decided
  /\ pc[1] = "trim"

\* C11: a call decided by a rule whose target is REFUSED in any casing
\* replies REFUSED with no answer records and logs "refused @ pattern";
\* decided by a rule with any other target it replies with one A record
\* carrying the target, ttl 60, and logs "redirect to target @ pattern".
C11_RefusedOrRedirect ==
  \A t \in Threads :
    (pc[t] \in {"append", "trim", "raised"} /\ loc[t].pat # <<>>) =>
       IF Upper(loc[t].ip) = <<"R", "E", "F", "U", "S", "E", "D">>
         THEN /\ pc[t] # "raised"
              /\ loc[t].reply = [rcode |-> "REFUSED", answers |-> <<>>]
              /\ loc[t].action =
                   [kind |-> "refused @ ", ip |-> <<>>, pat |-> loc[t].pat]
         ELSE /\ pc[t] # "raised"
              /\ loc[t].reply =
                   [rcode |-> "NOERROR",
                    answers |-> << [rtype |-> "A", rdata |-> loc[t].ip,
                                    ttl |-> 60] >>]
              /\ loc[t].action =
                   [kind |-> "redirect to ", ip |-> loc[t].ip,
                    pat |-> loc[t].pat]

\* C12: a rule whose enabled flag is false when the scan examines it does
\* not decide the query: the scan goes on to the next rule, and no counter,
\* reply, log action or log entry is made from it.
C12_DisabledNeverDecides ==
  [][ \A t \in Threads :
        ( /\ pc[t] = "scan"
          /\ loc[t].idx < Len(lists[loc[t].list])
          /\ ~ rules[lists[loc[t].list][loc[t].idx + 1]].enabled
          /\ << pc[t], loc[t] >> # << pc'[t], loc'[t] >> )
        => /\ pc'[t] = "scan"
           /\ loc'[t] = [loc[t] EXCEPT !.idx = @ + 1]
           /\ estadisticas' = estadisticas
           /\ logs' = logs ]_vars

\* the scan has gone past a disabled rule that matches the query inside its
\* time window
C12_Witness ==
  \E t \in Threads :
    /\ pc[t] = "scan"
    /\ loc[t].idx >= 1
    /\ LET r == rules[lists[loc[t].list][loc[t].idx]]
       IN /\ ~ r.enabled
          /\ FnMatch(RStrip(loc[t].domain, {"."}), RStrip(r.pattern, {"."}))
          /\ TimeActive(r.start, r.end, clock)

\* C13: with maintenance off, a scan that ends with no rule deciding calls
\* the upstream resolver: on an error the reply is NOERROR with no records
\* and the action starts with "error", on an address X the reply is one A
\* record for X and the action is "resolved external X"; the entry is
\* appended to the log, and no step of such a call changes a counter.
C13_UpstreamFallback ==
  [][ \A t \in Threads :
        (<< pc[t], loc[t] >> # << pc'[t], loc'[t] >> /\ ~ maintenance_mode) =>
          /\ (pc[t] = "scan" /\ loc[t].idx >= Len(lists[loc[t].list])) =>
               /\ pc'[t] = "append"
               /\ estadisticas' = estadisticas
               /\ \/ /\ loc'[t].reply = [rcode |-> "NOERROR", answers |-> <<>>]
                     /\ loc'[t].action.kind = "error "
                  \/ \E r \in UpstreamResults :
                       /\ r.ok
                       /\ loc'[t].reply =
                            [rcode |-> "NOERROR",
                             answers |-> << [rtype |-> "A", rdata |-> r.ip,
                                             ttl |-> 60] >>]
                       /\ loc'[t].action =
                            [kind |-> "resolved external ", ip |-> r.ip,
                             pat |-> <<>>]
          /\ ( /\ pc[t] \in {"append", "trim"}
               /\ loc[t].action.kind \in {"error ", "resolved external "} ) =>
               /\ estadisticas' = estadisticas
               /\ pc[t] = "append" =>
                    /\ pc'[t] = "trim"
                    /\ Len(logs') = Len(logs) + 1
                    /\ logs'[Len(logs')].action = loc[t].action
               /\ pc[t] = "trim" => pc'[t] = "idle" ]_vars

\* two calls have completed, one with the upstream error and one with the
\* upstream address, both logged, and no counter was written
C13_Witness ==
  /\ AllIdle
  /\ \E i \in DOMAIN logs : logs[i].action.kind = "error "
  /\ \E i \in DOMAIN logs : logs[i].action.kind = "resolved external "
  /\ estadisticas = EmptyStats
  /\ ~ maintenance_mode

\* C14: a call of resolve that starts after toggle_maintenance has switched
\* the flag sees the new value: after an odd number of toggles (maintenance
\* was off at the start) the call answers with the TXT maintenance message
\* without scanning, after an even number it scans the rules.
C14_ToggleSeenByNextCall ==
  [][ \A t \in Threads :
        (pc[t] = "idle" /\ pc'[t] # "idle") =>
           IF admins % 2 = 1
             THEN /\ pc'[t] = "append"
                  /\ loc'[t].reply = MaintenanceReply
                  /\ loc'[t].action = MaintenanceAction
             ELSE /\ pc'[t] = "scan"
                  /\ loc'[t].reply = [rcode |-> "NOERROR", answers |-> <<>>]
                  /\ loc'[t].action.kind # "maintenance mode" ]_vars

\* a query was answered normally, then maintenance was switched on, and the
\* next query got the maintenance answer
C14_Witness ==
  /\ AllIdle
  /\ Len(appended) = 2
  /\ appended[1].action.kind # "maintenance mode"
  /\ appended[2].action.kind = "maintenance mode"
  /\ maintenance_mode
  /\ admins = 1

\* the rules the server holds, in stored order
RuleSet ==
  [i \in 1..Len(lists[global_bloqueos]) |-> rules[lists[global_bloqueos][i]]]
HasPattern(r, pat) == r.pattern = pat
Others(RS, pat) == SelectSeq(RS, LAMBDA r : ~ HasPattern(r, pat))

\* C17: remove_block(pattern) deletes every rule whose pattern is exactly
\* the argument and keeps the other rules, unchanged and in their order;
\* with no rule of that pattern the rules are as before; the maintenance
\* flag, the counters and the log are not changed.
C17_RemoveExact ==
  [][ \A pat \in PatternArgs :
        RemoveBlock(pat) =>
          /\ RuleSet' = Others(RuleSet, pat)
          /\ (\A i \in DOMAIN RuleSet : RuleSet[i].pattern # pat) =>
               RuleSet' = RuleSet
          /\ UNCHANGED << maintenance_mode, estadisticas, logs >> ]_vars

\* of three rules made so far, two with the same pattern, only the third
\* is left, in a new list
C17_Witness ==
  /\ Len(rules) = 3
  /\ rules[1].pattern = rules[3].pattern
  /\ rules[2].pattern # rules[1].pattern
  /\ RuleSet = << rules[2] >>
  /\ global_bloqueos # 1

\* the rule set a list and a heap of rule dicts make
RuleSetOf(L, rs) == [i \in 1..Len(L) |-> rs[L[i]]]
FirstWith(RS, pat) ==
  IF \E i \in DOMAIN RS : RS[i].pattern = pat
    THEN CHOOSE i \in DOMAIN RS :
           /\ RS[i].pattern = pat
           /\ \A j \in 1..(i - 1) : RS[j].pattern # pat
    ELSE 0

\* C18: toggle_rule(pattern) negates the enabled flag of the first rule, in
\* stored order, whose pattern is the argument, and changes no other rule,
\* no other field and not the order; toggling the same pattern again gives
\* the rule set back; with no rule of that pattern the rule set is as
\* before.
C18_ToggleFirst ==
  [][ \A pat \in PatternArgs :
        ToggleRule(pat) =>
          LET f == FirstWith(RuleSet, pat)
          IN /\ RuleSet' = IF f = 0 THEN RuleSet
                           ELSE [RuleSet EXCEPT ![f].enabled = ~ @]
             /\ RuleSetOf(lists'[global_bloqueos'],
                          Toggled(lists'[global_bloqueos'], rules', pat))
                  = RuleSet ]_vars

\* the first of two rules with one pattern was loaded disabled and is
\* enabled now
C18_Witness ==
  /\ Len(RuleSet) = 3
  /\ RuleSet[1].pattern = RuleSet[3].pattern
  /\ RuleSet[1] = [RuleBad EXCEPT !.enabled = TRUE]
  /\ RuleSet[3].enabled

\* a timestamp of the log, in seconds
StampSeconds(ts) == ((ts[1] * 24 + ts[2]) * 60 + ts[3]) * 60 + ts[4]

\* C20: the timestamps of the log never decrease from one entry to the
\* next, whatever the interleaving of the calls of resolve.
C20_LogInTimeOrder ==
  \A i \in 1..(Len(logs) - 1) :
    StampSeconds(logs[i].ts) <= StampSeconds(logs[i + 1].ts)

\* what a call of resolve that scanned has decided: the pattern and target
\* of the rule it answers from, or <<>> for the upstream resolver
Decision(l) == IF l.pat = <<>> THEN <<>> ELSE << l.pat, l.ip >>

\* C16: a call of resolve that scanned the rules returns the decision that
\* first match gives on the rule set as it stood at some one instant
\* between the start of the call and its return.
C16_ScanIsSnapshot ==
  [][ \A t \in Threads :
        ( /\ pc[t] = "trim"
          /\ pc'[t] = "idle"
          /\ loc[t].action.kind # "maintenance mode" )
        => Decision(loc[t]) \in snap[t] ]_vars

\* the requests made for a pattern, and the number of rules with it
Made(op, pat) == {w \in Requests : req[w].op = op /\ req[w].arg = pat}
Completed(op, pat) == {w \in Made(op, pat) : req[w].at = "done"}
Holds(RS, pat) == Cardinality({i \in DOMAIN RS : RS[i].pattern = pat})

\* C15: no completed add_block or toggle_rule is lost.  For a pattern no
\* remove_block was asked for, the rule set holds the rules of that pattern
\* the server was loaded with and one more for every completed add_block;
\* and when one toggle_rule of the pattern has completed and no other was
\* asked for, the first rule of the pattern, loaded enabled, is disabled.
C15_NoLostMutation ==
  \A pat \in PatternArgs :
    Made("remove", pat) = {} =>
      /\ Holds(RuleSet, pat) >=
           Holds(AdminConfig, pat) + Cardinality(Completed("add", pat))
      /\ ( /\ Cardinality(Made("toggle", pat)) = 1
           /\ Completed("toggle", pat) # {}
           /\ Holds(AdminConfig, pat) > 0 ) =>
           ~ RuleSet[FirstWith(RuleSet, pat)].enabled

\* C19: whenever no administrative request is in progress, config.json
\* holds the rules the server holds, in their order and with their enabled
\* flags, and the maintenance flag.
C19_DiskIsMemory ==
  (\A w \in Requests : req[w].at \in {"idle", "done"}) =>
     disk = [bloqueos |-> RuleSet, maintenance |-> maintenance_mode]

=============================================================================
